---------------------------- MODULE Spec2Model ----------------------------
(***************************************************************************)
(* Model of the graphbus-ui example agents (src/agents/*.py) and of the    *)
(* graphbus substrate they are written against (registry, dependency       *)
(* resolver, invocation router).  The agents are translated from their     *)
(* Python source; the substrate is imported by the agents but its code is  *)
(* not part of src/, so it is modelled from spec.md sections 4.1-4.3.      *)
(*                                                                         *)
(* Text is modelled as a sequence of one-character strings so that         *)
(* str.lower() and the substring test `word in message` are computed.      *)
(* Confidence values are kept in tenths (0.9 is 9).  Room and user         *)
(* identifiers are opaque keys, modelled as 1..NumRooms and 1..NumUsers.   *)
(***************************************************************************)
EXTENDS Naturals, Integers, Sequences, FiniteSets, TLC

VARIABLES
    registered,   \* registry: agent names in registration order
    live,         \* registry: activated agent names in activation order
    history,      \* ConversationAgent.history
    rooms,        \* RoomManager.rooms : room_id -> set of user_id
    room_order,   \* insertion order of the keys of RoomManager.rooms
    ret,          \* the last call made by the host and what it returned
    ctx,          \* execution contexts: the call each one is in the middle of
    subscribers   \* event bus: the handlers subscribed to the event

vars == <<registered, live, history, rooms, room_order, ret, ctx, subscribers>>

----------------------------------------------------------------------------
(* Bounds *)

MaxHist == 3      \* longest history on which the host still adds records
MaxFullHist == 2  \* the same, in the specification of the whole system
MaxRegHist == 1   \* the same, in the specification of the registry
NumRooms == 2
NumUsers == 2
NumContexts == 2  \* execution contexts of the host
MaxSubs == 3      \* longest subscriber list of the event
NumHandlers == 2  \* event handlers
MaxMsgLen == 5    \* longest generated message

RoomIds == 1..NumRooms
UserIds == 1..NumUsers
Contexts == 1..NumContexts
Limits == (0 - (MaxHist + 1))..(MaxHist + 1)

----------------------------------------------------------------------------
(* Text *)

UpperCase ==
    <<"A","B","C","D","E","F","G","H","I","J","K","L","M",
      "N","O","P","Q","R","S","T","U","V","W","X","Y","Z">>
LowerCase ==
    <<"a","b","c","d","e","f","g","h","i","j","k","l","m",
      "n","o","p","q","r","s","t","u","v","w","x","y","z">>

LowerChar(c) ==
    IF \E i \in 1..Len(UpperCase) : UpperCase[i] = c
    THEN LowerCase[CHOOSE i \in 1..Len(UpperCase) : UpperCase[i] = c]
    ELSE c

\* str.lower()
Lower(s) == [i \in 1..Len(s) |-> LowerChar(s[i])]

\* needle in hay, for strings
Contains(hay, needle) ==
    \E i \in 0..(Len(hay) - Len(needle)) :
        SubSeq(hay, i + 1, i + Len(needle)) = needle

GreetingWords ==
    { <<"h","e","l","l","o">>, <<"h","i">>, <<"h","e","y">> }
FarewellWords ==
    { <<"b","y","e">>, <<"g","o","o","d","b","y","e">>,
      <<"s","e","e"," ","y","o","u">> }

GreetingText ==
    <<"H","e","l","l","o","!"," ","H","o","w"," ","c","a","n"," ","I"," ",
      "h","e","l","p"," ","y","o","u"," ","t","o","d","a","y","?">>
FarewellText ==
    <<"G","o","o","d","b","y","e","!"," ","H","a","v","e"," ","a"," ",
      "g","r","e","a","t"," ","d","a","y","!">>
QuestionText ==
    <<"T","h","a","t","'","s"," ","a","n"," ","i","n","t","e","r","e","s",
      "t","i","n","g"," ","q","u","e","s","t","i","o","n","."," ","L","e",
      "t"," ","m","e"," ","t","h","i","n","k"," ","a","b","o","u","t"," ",
      "t","h","a","t",".",".",".">>
StatementText ==
    <<"I"," ","u","n","d","e","r","s","t","a","n","d","."," ","T","e","l",
      "l"," ","m","e"," ","m","o","r","e","!">>
FallbackText ==
    <<"I","'","m"," ","n","o","t"," ","s","u","r","e"," ","h","o","w"," ",
      "t","o"," ","r","e","s","p","o","n","d"," ","t","o"," ","t","h","a",
      "t",".">>

\* the messages the host sends
MsgHello == <<"h","e","l","l","o">>
MsgByeQ  == <<"B","y","e","?">>
MsgWhyQ  == <<"w","h","y","?">>
MsgOk    == <<"o","k">>
Messages == { MsgHello, MsgByeQ, MsgWhyQ, MsgOk }
Roles == { "user", "assistant" }

----------------------------------------------------------------------------
(* Results of calls *)

NoRet ==
    [ op |-> "none", target |-> "none", raised |-> "",
      role |-> "", content |-> <<>>, message |-> <<>>, limit |-> 0,
      room_id |-> 0, user_id |-> 0,
      success |-> FALSE, error |-> "",
      message_count |-> 0, cleared_count |-> 0, member_count |-> 0,
      records |-> <<>>, members |-> <<>>, room_list |-> <<>>,
      intent |-> "", confidence |-> 0, response |-> <<>>,
      has_intent |-> FALSE, has_confidence |-> FALSE,
      names |-> {}, delivered |-> <<>>, failed |-> {} ]

\* an execution context that is not inside a call
IdleFrame ==
    [ op |-> "none", pc |-> "idle", message |-> <<>>,
      room_id |-> 0, user_id |-> 0,
      intent |-> "", confidence |-> 0, response |-> <<>>,
      trace |-> <<>> ]

----------------------------------------------------------------------------
(* Agent descriptors: the names, the declared dependencies and the         *)
(* operations of the four agent classes                                    *)

AgentNames ==
    { "ConversationAgent", "IntentClassifierAgent",
      "ResponseGeneratorAgent", "RoomManager" }

ConversationAgentDeps == <<>>
\* variant: the @depends_on declaration of IntentClassifierAgent left out
IntentClassifierAgentDepsDropped == <<>>
IntentClassifierAgentDeps == << "ConversationAgent" >>
\* variant: the @depends_on declaration names ConversationAgent only
ResponseGeneratorAgentDepsPartial == << "ConversationAgent" >>
ResponseGeneratorAgentDeps == << "ConversationAgent", "IntentClassifierAgent" >>
RoomManagerDeps == <<>>
\* two descriptors that require each other
CycleADeps == << "B" >>
CycleBDeps == << "A" >>

ConversationAgentOps == { "add_message", "get_history", "clear_history" }
IntentClassifierAgentOps == { "classify_intent" }
ResponseGeneratorAgentOps == { "generate_response" }
RoomManagerOps ==
    { "create_room", "join_room", "leave_room", "get_room_members",
      "list_rooms" }

\* AgentDescriptor.dependencies
dependencies(name) ==
    CASE name = "ConversationAgent" -> ConversationAgentDeps
      [] name = "IntentClassifierAgent" -> IntentClassifierAgentDeps
      [] name = "ResponseGeneratorAgent" -> ResponseGeneratorAgentDeps
      [] name = "RoomManager" -> RoomManagerDeps
      [] name = "A" -> CycleADeps
      [] name = "B" -> CycleBDeps
      [] OTHER -> <<>>

\* AgentDescriptor.operations
operations(name) ==
    CASE name = "ConversationAgent" -> ConversationAgentOps
      [] name = "IntentClassifierAgent" -> IntentClassifierAgentOps
      [] name = "ResponseGeneratorAgent" -> ResponseGeneratorAgentOps
      [] name = "RoomManager" -> RoomManagerOps
      [] OTHER -> {}

Range(s) == { s[i] : i \in 1..Len(s) }

----------------------------------------------------------------------------
(* Dependency Resolver *)

\* a dependency of a registered agent that was never registered
Unresolved(reg) ==
    \E i \in 1..Len(reg) :
        \E d \in Range(dependencies(reg[i])) : d \notin Range(reg)

\* the positions of reg that can be activated next: not yet placed, and
\* every dependency placed
Ready(reg, placed) ==
    { i \in 1..Len(reg) :
        /\ reg[i] \notin Range(placed)
        /\ \A d \in Range(dependencies(reg[i])) : d \in Range(placed) }

\* stable topological sort: ties are broken by registration order
RECURSIVE TopoSort(_, _)
TopoSort(reg, placed) ==
    IF Ready(reg, placed) = {}
    THEN placed
    ELSE LET i == CHOOSE j \in Ready(reg, placed) :
                      \A k \in Ready(reg, placed) : j <= k
         IN  TopoSort(reg, Append(placed, reg[i]))

ActivationOrder(reg) == TopoSort(reg, <<>>)

\* some registered agent can never become ready
Cyclic(reg) == Len(ActivationOrder(reg)) < Len(reg)

\* a requires b, directly or through other agents
RECURSIVE Requires(_, _, _)
Requires(a, b, depth) ==
    /\ depth > 0
    /\ \E d \in Range(dependencies(a)) : d = b \/ Requires(d, b, depth - 1)

\* variant: the error names only the agent at which the traversal met the
\* cycle
CyclePathEntry(reg) ==
    LET on == { i \in 1..Len(reg) : Requires(reg[i], reg[i], Len(reg)) }
    IN  { reg[i] : i \in { j \in on : \A k \in on : j <= k } }

\* the agents named by CyclicDependencyError: those on a dependency cycle
CyclePath(reg) == { n \in Range(reg) : Requires(n, n, Len(reg)) }

----------------------------------------------------------------------------
(* Agent Registry *)

Raise(target, op, error) ==
    [NoRet EXCEPT !.op = op, !.target = target, !.raised = error]

register(name) ==
    /\ live = <<>>
    /\ IF name \in Range(registered)
       THEN /\ ret' = Raise("Registry", "register", "DuplicateNameError")
            /\ UNCHANGED registered
       ELSE /\ registered' = Append(registered, name)
            /\ ret' = [NoRet EXCEPT !.op = "register",
                                    !.target = "Registry",
                                    !.success = TRUE]
    /\ UNCHANGED <<ctx, subscribers, live, history, rooms, room_order>>

activate_all ==
    /\ IF live # <<>>
       THEN /\ \E policy \in { "", "AlreadyActivatedError" } :
                  ret' = Raise("Registry", "activate_all", policy)
            /\ UNCHANGED live
       ELSE IF Unresolved(registered)
       THEN /\ ret' = Raise("Registry", "activate_all",
                            "UnresolvedDependencyError")
            /\ UNCHANGED live
       ELSE IF Cyclic(registered)
       THEN /\ ret' = [Raise("Registry", "activate_all",
                             "CyclicDependencyError")
                          EXCEPT !.names = CyclePath(registered)]
            /\ UNCHANGED live
       ELSE /\ live' = ActivationOrder(registered)
            /\ ret' = [NoRet EXCEPT !.op = "activate_all",
                                    !.target = "Registry",
                                    !.success = TRUE]
    /\ UNCHANGED <<ctx, subscribers, registered, history, rooms, room_order>>

----------------------------------------------------------------------------
(* Invocation Router *)

\* variant: the router resolves registered names, activated or not
RouterErrorRegistered(target, op) ==
    IF target \notin Range(registered) THEN "UnknownAgentError"
    ELSE IF op \notin operations(target) THEN "UnknownOperationError"
    ELSE ""

\* the error invoke(target, op, ...) fails with, "" when it dispatches
RouterError(target, op) ==
    IF target \notin Range(live) THEN "UnknownAgentError"
    ELSE IF op \notin operations(target) THEN "UnknownOperationError"
    ELSE ""

Accepted(target, op) == RouterError(target, op) = ""

\* invoke(target, op, ...) by the host, failing in the router
invoke_rejected(target, op) ==
    /\ ~Accepted(target, op)
    /\ ret' = Raise(target, op, RouterError(target, op))
    /\ UNCHANGED <<ctx, subscribers, registered, live, history, rooms, room_order>>

----------------------------------------------------------------------------
(* Event Bus: the subscriber list of one event *)

Handlers == 1..NumHandlers

\* subscribe(event_name, handler)
subscribe(handler) ==
    /\ subscribers' = Append(subscribers, handler)
    /\ ret' = [NoRet EXCEPT !.op = "subscribe", !.target = "EventBus",
                            !.user_id = handler]
    /\ UNCHANGED <<ctx, registered, live, history, rooms, room_order>>

\* variant: the first handler that raises ends the publication
DeliveriesAborting(subs, payload, failing) ==
    LET stop == { i \in 1..Len(subs) : subs[i] \in failing }
        last == IF stop = {} THEN Len(subs)
                ELSE CHOOSE i \in stop : \A j \in stop : i <= j
    IN  [ i \in 1..last |-> [handler |-> subs[i], payload |-> payload] ]

\* the handler invocations of one publish, in order; the handlers in
\* failing raise
Deliveries(subs, payload, failing) ==
    [ i \in 1..Len(subs) |-> [handler |-> subs[i], payload |-> payload] ]

\* publish(event_name, payload)
publish(payload, failing) ==
    /\ ret' = [NoRet EXCEPT
                 !.op = "publish", !.target = "EventBus",
                 !.message = payload,
                 !.delivered = Deliveries(subscribers, payload, failing),
                 !.failed = { d.handler :
                                d \in Range(Deliveries(subscribers, payload,
                                                       failing)) }
                            \cap failing]
    /\ UNCHANGED <<ctx, subscribers, registered, live, history, rooms,
                   room_order>>

----------------------------------------------------------------------------
(* IntentClassifierAgent *)

\* variant: the farewell words are looked for before the greeting words
classify_intent_farewell_first(message) ==
    LET message_lower == Lower(message) IN
    IF \E word \in FarewellWords : Contains(message_lower, word)
    THEN [intent |-> "farewell", confidence |-> 9]
    ELSE IF \E word \in GreetingWords : Contains(message_lower, word)
    THEN [intent |-> "greeting", confidence |-> 9]
    ELSE IF Contains(message, <<"?">>)
    THEN [intent |-> "question", confidence |-> 7]
    ELSE [intent |-> "statement", confidence |-> 6]

classify_intent(message) ==
    LET message_lower == Lower(message) IN
    IF \E word \in GreetingWords : Contains(message_lower, word)
    THEN [intent |-> "greeting", confidence |-> 9]
    ELSE IF \E word \in FarewellWords : Contains(message_lower, word)
    THEN [intent |-> "farewell", confidence |-> 9]
    ELSE IF Contains(message, <<"?">>)
    THEN [intent |-> "question", confidence |-> 7]
    ELSE [intent |-> "statement", confidence |-> 6]

----------------------------------------------------------------------------
(* ConversationAgent *)

\* s[start:] for a Python list s and an integer start
PySliceFrom(s, start) ==
    LET n == Len(s)
        lo == IF start < 0
              THEN (IF start + n < 0 THEN 0 ELSE start + n)
              ELSE (IF start > n THEN n ELSE start)
    IN  SubSeq(s, lo + 1, n)

\* variant: self.history[:limit]
HistoryWindowHead(h, limit) ==
    SubSeq(h, 1, IF limit < Len(h) THEN limit ELSE Len(h))

\* self.history[-limit:]
HistoryWindow(h, limit) == PySliceFrom(h, 0 - limit)

\* variant: self.history.insert(0, message)
PrependMessage(h, role, content) ==
    <<[role |-> role, content |-> content]>> \o h

\* self.history.append(message)
AppendMessage(h, role, content) ==
    Append(h, [role |-> role, content |-> content])

add_message(role, content) ==
    /\ history' = AppendMessage(history, role, content)
    /\ ret' = [NoRet EXCEPT !.op = "add_message",
                            !.target = "ConversationAgent",
                            !.role = role, !.content = content,
                            !.success = TRUE,
                            !.message_count = Len(history')]
    /\ UNCHANGED <<ctx, subscribers, registered, live, rooms, room_order>>

get_history(limit) ==
    /\ ret' = [NoRet EXCEPT !.op = "get_history",
                            !.target = "ConversationAgent",
                            !.limit = limit,
                            !.records = HistoryWindow(history, limit)]
    /\ UNCHANGED <<ctx, subscribers, registered, live, history, rooms, room_order>>

\* variant: the count is taken after the history is reset
clear_history_count_after ==
    /\ history' = <<>>
    /\ ret' = [NoRet EXCEPT !.op = "clear_history",
                            !.target = "ConversationAgent",
                            !.success = TRUE,
                            !.cleared_count = Len(history')]
    /\ UNCHANGED <<ctx, subscribers, registered, live, rooms, room_order>>

clear_history ==
    /\ history' = <<>>
    /\ ret' = [NoRet EXCEPT !.op = "clear_history",
                            !.target = "ConversationAgent",
                            !.success = TRUE,
                            !.cleared_count = Len(history)]
    /\ UNCHANGED <<ctx, subscribers, registered, live, rooms, room_order>>

----------------------------------------------------------------------------
(* ResponseGeneratorAgent *)

responses ==
    [ greeting |-> GreetingText, farewell |-> FarewellText,
      question |-> QuestionText, statement |-> StatementText ]

\* responses.get(intent, "I'm not sure how to respond to that.")
ResponseText(intent) ==
    IF intent \in DOMAIN responses THEN responses[intent] ELSE FallbackText

\* the mapping classify_intent returns: both keys present
ClassifierResult(message) ==
    [ has_intent |-> TRUE, intent |-> classify_intent(message).intent,
      has_confidence |-> TRUE,
      confidence |-> classify_intent(message).confidence ]

\* intent_result.get("intent", "unknown")
IntentOf(intent_result) ==
    IF intent_result.has_intent THEN intent_result.intent ELSE "unknown"

\* intent_result.get("confidence", 0.0)
ConfidenceOf(intent_result) ==
    IF intent_result.has_confidence THEN intent_result.confidence ELSE 0

\* variant: an intent without canned text is answered as a statement
ComposeResponseNoFallback(intent_result) ==
    [ response |-> IF IntentOf(intent_result) \in DOMAIN responses
                   THEN responses[IntentOf(intent_result)]
                   ELSE StatementText,
      intent |-> IntentOf(intent_result),
      confidence |-> ConfidenceOf(intent_result) ]

\* what generate_response returns for the mapping the classifier returned
ComposeResponse(intent_result) ==
    [ response |-> ResponseText(IntentOf(intent_result)),
      intent |-> IntentOf(intent_result),
      confidence |-> ConfidenceOf(intent_result) ]

\* variant: the assistant record is added before the user record
generate_response_swapped(message) ==
    LET intent_result == classify_intent(message)
        response_text == ResponseText(intent_result.intent)
    IN
    /\ history' = AppendMessage(
                      AppendMessage(history, "assistant", response_text),
                      "user", message)
    /\ ret' = [NoRet EXCEPT !.op = "generate_response",
                            !.target = "ResponseGeneratorAgent",
                            !.message = message,
                            !.response = response_text,
                            !.intent = intent_result.intent,
                            !.confidence = intent_result.confidence]
    /\ UNCHANGED <<ctx, subscribers, registered, live, rooms, room_order>>

generate_response(message) ==
    LET intent_result == ClassifierResult(message)
        result == ComposeResponse(intent_result)
        intent == result.intent
        response_text == result.response
        call == [NoRet EXCEPT !.op = "generate_response",
                              !.target = "ResponseGeneratorAgent",
                              !.message = message]
    IN
    /\ IF ~Accepted("IntentClassifierAgent", "classify_intent")
       THEN /\ ret' = [call EXCEPT !.raised =
                         RouterError("IntentClassifierAgent",
                                     "classify_intent")]
            /\ UNCHANGED history
       ELSE IF ~Accepted("ConversationAgent", "add_message")
       THEN /\ ret' = [call EXCEPT !.raised =
                         RouterError("ConversationAgent", "add_message")]
            /\ UNCHANGED history
       ELSE /\ history' = AppendMessage(
                              AppendMessage(history, "user", message),
                              "assistant", response_text)
            /\ ret' = [call EXCEPT !.response = response_text,
                                   !.intent = intent,
                                   !.confidence = result.confidence]
    /\ UNCHANGED <<ctx, subscribers, registered, live, rooms, room_order>>

\* the statements of generate_response after the classifier has returned,
\* applied to the mapping held in ret
compose_response ==
    /\ ret.op = "intent_result"
    /\ ret' = [NoRet EXCEPT !.op = "generate_response",
                            !.target = "ResponseGeneratorAgent",
                            !.response = ComposeResponse(ret).response,
                            !.intent = ComposeResponse(ret).intent,
                            !.confidence = ComposeResponse(ret).confidence]
    /\ UNCHANGED <<ctx, subscribers, registered, live, history, rooms,
                   room_order>>

\* variant: the classifier records the message it is given in the
\* conversation (a runtime call to its declared dependency)
classify_recording(message) ==
    /\ history' = AppendMessage(history, "user", message)
    /\ ret' = [NoRet EXCEPT !.op = "classify_intent",
                            !.target = "IntentClassifierAgent",
                            !.message = message,
                            !.intent = classify_intent(message).intent,
                            !.confidence =
                                classify_intent(message).confidence]
    /\ UNCHANGED <<ctx, subscribers, registered, live, rooms, room_order>>

\* classify_intent called by the host
classify(message) ==
    /\ ret' = [NoRet EXCEPT !.op = "classify_intent",
                            !.target = "IntentClassifierAgent",
                            !.message = message,
                            !.intent = classify_intent(message).intent,
                            !.confidence =
                                classify_intent(message).confidence]
    /\ UNCHANGED <<ctx, subscribers, registered, live, history, rooms, room_order>>

----------------------------------------------------------------------------
(* ResponseGeneratorAgent.generate_response, one nested invocation at a    *)
(* time: the call runs on the execution context c of its caller            *)

\* variant: the user record is added before the classifier is asked
GenerateResponseStepsAddFirst == << "add_user", "classify", "add_assistant" >>

\* the nested invocations of generate_response, in program order
GenerateResponseSteps == << "classify", "add_user", "add_assistant" >>

\* the agent and the operation a nested invocation names
StepTarget(step) ==
    IF step = "classify" THEN "IntentClassifierAgent" ELSE "ConversationAgent"
StepOperation(step) ==
    IF step = "classify" THEN "classify_intent" ELSE "add_message"
StepName(step) ==
    CASE step = "classify" -> "IntentClassifierAgent.classify_intent"
      [] step = "add_user" -> "ConversationAgent.add_message(user)"
      [] step = "add_assistant" -> "ConversationAgent.add_message(assistant)"

\* the statement after the nested invocation `step`
StepAfter(step) ==
    LET i == CHOOSE j \in 1..Len(GenerateResponseSteps) :
                 GenerateResponseSteps[j] = step
    IN  IF i = Len(GenerateResponseSteps)
        THEN "return"
        ELSE GenerateResponseSteps[i + 1]

InGenerateResponse(c) ==
    /\ ctx[c].op = "generate_response"
    /\ ctx[c].pc \in Range(GenerateResponseSteps)

\* what the caller of generate_response gets when a nested invocation fails
GenerateResponseRaised(c, error) ==
    [NoRet EXCEPT !.op = "generate_response",
                  !.target = "ResponseGeneratorAgent",
                  !.message = ctx[c].message,
                  !.raised = error]

generate_response_begin(c, message) ==
    /\ ctx[c].pc = "idle"
    /\ ctx' = [ctx EXCEPT ![c] =
                 [IdleFrame EXCEPT !.op = "generate_response",
                                   !.pc = GenerateResponseSteps[1],
                                   !.message = message]]
    /\ UNCHANGED <<registered, live, history, rooms, room_order, ret,
                   subscribers>>

\* the next nested invocation: dispatched on the context of the caller,
\* which goes on only when the target has returned
generate_response_step(c) ==
    /\ InGenerateResponse(c)
    /\ LET f == ctx[c]
           step == f.pc
           result == ComposeResponse(ClassifierResult(f.message))
       IN
       IF ~Accepted(StepTarget(step), StepOperation(step))
       THEN /\ ret' = GenerateResponseRaised(c,
                         RouterError(StepTarget(step), StepOperation(step)))
            /\ ctx' = [ctx EXCEPT ![c] = IdleFrame]
            /\ UNCHANGED history
       ELSE /\ history' =
                  CASE step = "classify" -> history
                    [] step = "add_user" ->
                          AppendMessage(history, "user", f.message)
                    [] step = "add_assistant" ->
                          AppendMessage(history, "assistant", result.response)
            /\ ctx' = [ctx EXCEPT ![c] =
                  [f EXCEPT !.pc = StepAfter(step),
                            !.trace = Append(f.trace, StepName(step)),
                            !.intent = IF step = "classify"
                                       THEN result.intent
                                       ELSE f.intent,
                            !.confidence = IF step = "classify"
                                           THEN result.confidence
                                           ELSE f.confidence,
                            !.response = result.response]]
            /\ UNCHANGED ret
    /\ UNCHANGED <<registered, live, rooms, room_order, subscribers>>

\* variant: generate_response undoes the records it has added before the
\* error reaches its caller
generate_response_fault_undoing(c) ==
    /\ InGenerateResponse(c)
    /\ Accepted(StepTarget(ctx[c].pc), StepOperation(ctx[c].pc))
    /\ ret' = [GenerateResponseRaised(c, "OperationError")
                  EXCEPT !.error = StepName(ctx[c].pc)]
    /\ ctx' = [ctx EXCEPT ![c] = IdleFrame]
    /\ history' =
          SubSeq(history, 1,
                 Len(history)
                   - Cardinality({ i \in 1..Len(ctx[c].trace) :
                                     ctx[c].trace[i] # StepName("classify") }))
    /\ UNCHANGED <<registered, live, rooms, room_order, subscribers>>

\* the operation a nested invocation reached raises: generate_response has
\* no handler, so the error ends the call and reaches its caller
generate_response_fault(c) ==
    /\ InGenerateResponse(c)
    /\ Accepted(StepTarget(ctx[c].pc), StepOperation(ctx[c].pc))
    /\ ret' = [GenerateResponseRaised(c, "OperationError")
                  EXCEPT !.error = StepName(ctx[c].pc)]
    /\ ctx' = [ctx EXCEPT ![c] = IdleFrame]
    /\ UNCHANGED <<registered, live, history, rooms, room_order, subscribers>>

generate_response_return(c) ==
    /\ ctx[c].op = "generate_response"
    /\ ctx[c].pc = "return"
    /\ ret' = [NoRet EXCEPT !.op = "generate_response",
                            !.target = "ResponseGeneratorAgent",
                            !.message = ctx[c].message,
                            !.response = ctx[c].response,
                            !.intent = ctx[c].intent,
                            !.confidence = ctx[c].confidence]
    /\ ctx' = [ctx EXCEPT ![c] = IdleFrame]
    /\ UNCHANGED <<registered, live, history, rooms, room_order, subscribers>>

----------------------------------------------------------------------------
(* RoomManager *)

\* self.rooms[room_id] = members
SetRoom(rs, room_id, members) ==
    [r \in (DOMAIN rs) \cup {room_id} |->
        IF r = room_id THEN members ELSE rs[r]]

\* the orders in which list(s) can enumerate the set s
Listings(s) ==
    { l \in [1..Cardinality(s) -> s] : \A e \in s : \E i \in DOMAIN l : l[i] = e }

\* variant: no test for an existing room; the room is set to an empty one
create_room_resetting(room_id) ==
    /\ rooms' = SetRoom(rooms, room_id, {})
    /\ room_order' = IF room_id \in DOMAIN rooms THEN room_order
                     ELSE Append(room_order, room_id)
    /\ ret' = [NoRet EXCEPT !.op = "create_room",
                            !.target = "RoomManager",
                            !.room_id = room_id,
                            !.success = TRUE]
    /\ UNCHANGED <<ctx, subscribers, registered, live, history>>

create_room(room_id) ==
    /\ IF room_id \in DOMAIN rooms
       THEN /\ ret' = [NoRet EXCEPT !.op = "create_room",
                                    !.target = "RoomManager",
                                    !.room_id = room_id,
                                    !.success = FALSE,
                                    !.error = "Room already exists"]
            /\ UNCHANGED <<rooms, room_order>>
       ELSE /\ rooms' = SetRoom(rooms, room_id, {})
            /\ room_order' = Append(room_order, room_id)
            /\ ret' = [NoRet EXCEPT !.op = "create_room",
                                    !.target = "RoomManager",
                                    !.room_id = room_id,
                                    !.success = TRUE]
    /\ UNCHANGED <<ctx, subscribers, registered, live, history>>

\* variant: member_count is the count before the call plus one
join_room_counting(room_id, user_id) ==
    LET created == IF room_id \notin DOMAIN rooms
                   THEN SetRoom(rooms, room_id, {})
                   ELSE rooms
    IN
    /\ rooms' = SetRoom(created, room_id, created[room_id] \cup {user_id})
    /\ room_order' = IF room_id \notin DOMAIN rooms
                     THEN Append(room_order, room_id)
                     ELSE room_order
    /\ ret' = [NoRet EXCEPT !.op = "join_room",
                            !.target = "RoomManager",
                            !.room_id = room_id, !.user_id = user_id,
                            !.success = TRUE,
                            !.member_count =
                                Cardinality(created[room_id]) + 1]
    /\ UNCHANGED <<ctx, subscribers, registered, live, history>>

join_room(room_id, user_id) ==
    LET created == IF room_id \notin DOMAIN rooms
                   THEN SetRoom(rooms, room_id, {})
                   ELSE rooms
    IN
    /\ rooms' = SetRoom(created, room_id, created[room_id] \cup {user_id})
    /\ room_order' = IF room_id \notin DOMAIN rooms
                     THEN Append(room_order, room_id)
                     ELSE room_order
    /\ ret' = [NoRet EXCEPT !.op = "join_room",
                            !.target = "RoomManager",
                            !.room_id = room_id, !.user_id = user_id,
                            !.success = TRUE,
                            !.member_count = Cardinality(rooms'[room_id])]
    /\ UNCHANGED <<ctx, subscribers, registered, live, history>>

\* variant: a room is deleted when its last member leaves
leave_room_dropping_empty(room_id, user_id) ==
    /\ IF room_id \in DOMAIN rooms /\ user_id \in rooms[room_id]
       THEN /\ rooms' =
                  IF rooms[room_id] = {user_id}
                  THEN [r \in (DOMAIN rooms) \ {room_id} |-> rooms[r]]
                  ELSE SetRoom(rooms, room_id, rooms[room_id] \ {user_id})
            /\ room_order' =
                  IF rooms[room_id] = {user_id}
                  THEN SelectSeq(room_order, LAMBDA r : r # room_id)
                  ELSE room_order
            /\ ret' = [NoRet EXCEPT !.op = "leave_room",
                                    !.target = "RoomManager",
                                    !.room_id = room_id,
                                    !.user_id = user_id,
                                    !.success = TRUE]
       ELSE /\ ret' = [NoRet EXCEPT !.op = "leave_room",
                                    !.target = "RoomManager",
                                    !.room_id = room_id,
                                    !.user_id = user_id,
                                    !.success = FALSE,
                                    !.error = "User not in room"]
            /\ UNCHANGED <<rooms, room_order>>
    /\ UNCHANGED <<ctx, subscribers, registered, live, history>>

\* variant: the test `room_id in self.rooms` left out, so that
\* self.rooms[room_id] raises KeyError for an absent room
leave_room_unguarded(room_id, user_id) ==
    /\ IF room_id \notin DOMAIN rooms
       THEN /\ ret' = [NoRet EXCEPT !.op = "leave_room",
                                    !.target = "RoomManager",
                                    !.room_id = room_id,
                                    !.user_id = user_id,
                                    !.raised = "KeyError"]
            /\ UNCHANGED rooms
       ELSE IF user_id \in rooms[room_id]
       THEN /\ rooms' = SetRoom(rooms, room_id, rooms[room_id] \ {user_id})
            /\ ret' = [NoRet EXCEPT !.op = "leave_room",
                                    !.target = "RoomManager",
                                    !.room_id = room_id,
                                    !.user_id = user_id,
                                    !.success = TRUE]
       ELSE /\ ret' = [NoRet EXCEPT !.op = "leave_room",
                                    !.target = "RoomManager",
                                    !.room_id = room_id,
                                    !.user_id = user_id,
                                    !.success = FALSE,
                                    !.error = "User not in room"]
            /\ UNCHANGED rooms
    /\ UNCHANGED <<ctx, subscribers, registered, live, history, room_order>>

leave_room(room_id, user_id) ==
    /\ IF room_id \in DOMAIN rooms /\ user_id \in rooms[room_id]
       THEN /\ rooms' = SetRoom(rooms, room_id, rooms[room_id] \ {user_id})
            /\ ret' = [NoRet EXCEPT !.op = "leave_room",
                                    !.target = "RoomManager",
                                    !.room_id = room_id,
                                    !.user_id = user_id,
                                    !.success = TRUE]
       ELSE /\ ret' = [NoRet EXCEPT !.op = "leave_room",
                                    !.target = "RoomManager",
                                    !.room_id = room_id,
                                    !.user_id = user_id,
                                    !.success = FALSE,
                                    !.error = "User not in room"]
            /\ UNCHANGED rooms
    /\ UNCHANGED <<ctx, subscribers, registered, live, history, room_order>>

get_room_members(room_id) ==
    /\ \E l \in Listings(IF room_id \in DOMAIN rooms
                         THEN rooms[room_id] ELSE {}) :
          ret' = [NoRet EXCEPT !.op = "get_room_members",
                               !.target = "RoomManager",
                               !.room_id = room_id,
                               !.members = l]
    /\ UNCHANGED <<ctx, subscribers, registered, live, history, rooms, room_order>>

list_rooms ==
    /\ ret' = [NoRet EXCEPT !.op = "list_rooms",
                            !.target = "RoomManager",
                            !.room_list =
                                [i \in 1..Len(room_order) |->
                                    [room_id |-> room_order[i],
                                     member_count |->
                                        Cardinality(rooms[room_order[i]])]]]
    /\ UNCHANGED <<ctx, subscribers, registered, live, history, rooms, room_order>>

----------------------------------------------------------------------------
(* RoomManager.join_room, one statement at a time, on the execution        *)
(* context c of its caller: the method takes no lock, so that the          *)
(* statements of calls on different contexts interleave                    *)

join_room_begin(c, room_id, user_id) ==
    /\ ctx[c].pc = "idle"
    /\ ctx' = [ctx EXCEPT ![c] =
                 [IdleFrame EXCEPT !.op = "join_room", !.pc = "check",
                                   !.room_id = room_id,
                                   !.user_id = user_id]]
    /\ UNCHANGED <<registered, live, history, rooms, room_order, ret,
                   subscribers>>

\* if room_id not in self.rooms:
join_room_check(c) ==
    /\ ctx[c].op = "join_room" /\ ctx[c].pc = "check"
    /\ ctx' = [ctx EXCEPT ![c].pc =
                 IF ctx[c].room_id \notin DOMAIN rooms
                 THEN "create" ELSE "add"]
    /\ UNCHANGED <<registered, live, history, rooms, room_order, ret,
                   subscribers>>

\* self.rooms[room_id] = set()
join_room_create(c) ==
    /\ ctx[c].op = "join_room" /\ ctx[c].pc = "create"
    /\ rooms' = SetRoom(rooms, ctx[c].room_id, {})
    /\ room_order' = IF ctx[c].room_id \notin DOMAIN rooms
                     THEN Append(room_order, ctx[c].room_id)
                     ELSE room_order
    /\ ctx' = [ctx EXCEPT ![c].pc = "add"]
    /\ UNCHANGED <<registered, live, history, ret, subscribers>>

\* self.rooms[room_id].add(user_id)
join_room_add(c) ==
    /\ ctx[c].op = "join_room" /\ ctx[c].pc = "add"
    /\ rooms' = SetRoom(rooms, ctx[c].room_id,
                        rooms[ctx[c].room_id] \cup {ctx[c].user_id})
    /\ ctx' = [ctx EXCEPT ![c].pc = "return"]
    /\ UNCHANGED <<registered, live, history, room_order, ret, subscribers>>

\* return {..., "member_count": len(self.rooms[room_id])}
join_room_return(c) ==
    /\ ctx[c].op = "join_room" /\ ctx[c].pc = "return"
    /\ ret' = [NoRet EXCEPT !.op = "join_room",
                            !.target = "RoomManager",
                            !.room_id = ctx[c].room_id,
                            !.user_id = ctx[c].user_id,
                            !.success = TRUE,
                            !.member_count =
                                Cardinality(rooms[ctx[c].room_id])]
    /\ ctx' = [ctx EXCEPT ![c] = IdleFrame]
    /\ UNCHANGED <<registered, live, history, rooms, room_order, subscribers>>

----------------------------------------------------------------------------
(* Specifications *)

\* the process before any agent is registered
Init ==
    /\ registered = <<>>
    /\ live = <<>>
    /\ history = <<>>
    /\ rooms = << >>
    /\ room_order = <<>>
    /\ ret = NoRet
    /\ ctx = [c \in Contexts |-> IdleFrame]
    /\ subscribers = <<>>

\* the order in which the host registers the agent classes
StartupOrder ==
    << "ConversationAgent", "IntentClassifierAgent",
       "ResponseGeneratorAgent", "RoomManager" >>

\* the process after startup: all four agents registered and activated
InitActivated ==
    /\ registered = StartupOrder
    /\ live = ActivationOrder(StartupOrder)
    /\ history = <<>>
    /\ rooms = << >>
    /\ room_order = <<>>
    /\ ret = NoRet
    /\ ctx = [c \in Contexts |-> IdleFrame]
    /\ subscribers = <<>>

\* invoke(...) by the host, dispatched by the router to the operation
InvokeAddMessage(role, content) ==
    Accepted("ConversationAgent", "add_message") /\ add_message(role, content)
InvokeGetHistory(limit) ==
    Accepted("ConversationAgent", "get_history") /\ get_history(limit)
InvokeClearHistory ==
    Accepted("ConversationAgent", "clear_history") /\ clear_history
InvokeClassifyIntent(message) ==
    Accepted("IntentClassifierAgent", "classify_intent") /\ classify(message)
InvokeGenerateResponse(message) ==
    /\ Accepted("ResponseGeneratorAgent", "generate_response")
    /\ generate_response(message)
InvokeCreateRoom(room_id) ==
    Accepted("RoomManager", "create_room") /\ create_room(room_id)
InvokeJoinRoom(room_id, user_id) ==
    Accepted("RoomManager", "join_room") /\ join_room(room_id, user_id)
InvokeLeaveRoom(room_id, user_id) ==
    Accepted("RoomManager", "leave_room") /\ leave_room(room_id, user_id)
InvokeGetRoomMembers(room_id) ==
    Accepted("RoomManager", "get_room_members") /\ get_room_members(room_id)
InvokeListRooms ==
    Accepted("RoomManager", "list_rooms") /\ list_rooms

AllOps ==
    ConversationAgentOps \cup IntentClassifierAgentOps
        \cup ResponseGeneratorAgentOps \cup RoomManagerOps

\* the names and operations the host tries, known or not
TriedNames == AgentNames \cup { "GhostAgent" }
TriedOps == AllOps \cup { "no_such_operation" }

\* the conversation, classifier and response agents
NextConv ==
    \/ \E role \in Roles, content \in Messages :
          Len(history) < MaxHist /\ InvokeAddMessage(role, content)
    \/ \E limit \in Limits : InvokeGetHistory(limit)
    \/ InvokeClearHistory
    \/ \E message \in Messages : InvokeClassifyIntent(message)
    \/ \E message \in Messages :
          Len(history) < MaxHist /\ InvokeGenerateResponse(message)

SpecConv == InitActivated /\ [][NextConv]_vars

\* the room manager
NextRooms ==
    \/ \E r \in RoomIds : InvokeCreateRoom(r)
    \/ \E r \in RoomIds, u \in UserIds : InvokeJoinRoom(r, u)
    \/ \E r \in RoomIds, u \in UserIds : InvokeLeaveRoom(r, u)
    \/ \E r \in RoomIds : InvokeGetRoomMembers(r)
    \/ InvokeListRooms

SpecRooms == InitActivated /\ [][NextRooms]_vars

\* the whole system after startup
Next ==
    \/ \E role \in Roles, content \in Messages :
          Len(history) < MaxFullHist /\ InvokeAddMessage(role, content)
    \/ \E limit \in Limits : InvokeGetHistory(limit)
    \/ InvokeClearHistory
    \/ \E message \in Messages : InvokeClassifyIntent(message)
    \/ \E message \in Messages :
          Len(history) < MaxFullHist /\ InvokeGenerateResponse(message)
    \/ InvokeCreateRoom(1)
    \/ InvokeJoinRoom(1, 1)
    \/ InvokeLeaveRoom(1, 1)
    \/ InvokeGetRoomMembers(1)
    \/ InvokeListRooms
    \/ \E target \in { "GhostAgent", "ConversationAgent" } :
          invoke_rejected(target, "join_room")

Spec == InitActivated /\ [][Next]_vars

\* startup: registration in any order, activation, and invocations made
\* before and after it
NextReg ==
    \/ \E name \in AgentNames : register(name)
    \/ activate_all
    \/ \E target \in TriedNames, op \in TriedOps : invoke_rejected(target, op)
    \/ Len(history) < MaxRegHist /\ InvokeAddMessage("user", MsgHello)
    \/ InvokeClearHistory
    \/ InvokeClassifyIntent(MsgHello)
    \/ Len(history) < MaxRegHist /\ InvokeGenerateResponse(MsgHello)
    \/ InvokeJoinRoom(1, 1)
    \/ InvokeLeaveRoom(1, 1)

SpecReg == Init /\ [][NextReg]_vars

\* startup of a descriptor set that may hold the two descriptors A and B
CycleNames == { "A", "B", "ConversationAgent", "IntentClassifierAgent" }

NextCycle ==
    \/ \E name \in CycleNames : register(name)
    \/ activate_all
    \/ \E target \in { "A", "B", "ConversationAgent" } :
          invoke_rejected(target, "add_message")

SpecCycle == Init /\ [][NextCycle]_vars

\* the event bus: subscriptions and publications in any order
NextBus ==
    \/ \E handler \in Handlers :
          Len(subscribers) < MaxSubs /\ subscribe(handler)
    \/ \E payload \in Messages, failing \in SUBSET Handlers :
          publish(payload, failing)

SpecBus == Init /\ [][NextBus]_vars

\* generate_response through the router, one nested invocation at a time,
\* on the single execution context of the host
InvokeGenerateResponseBegin(c, message) ==
    /\ Accepted("ResponseGeneratorAgent", "generate_response")
    /\ generate_response_begin(c, message)

NextNested ==
    \/ \E message \in Messages :
          Len(history) < MaxHist /\ InvokeGenerateResponseBegin(1, message)
    \/ generate_response_step(1)
    \/ generate_response_return(1)
    \/ ctx[1].pc = "idle" /\ InvokeClearHistory

\* a call that has started runs on: nothing but the caller's own context
\* is needed for its next statement
FairSpecNested ==
    /\ InitActivated
    /\ [][NextNested]_vars
    /\ WF_vars(generate_response_step(1))
    /\ WF_vars(generate_response_return(1))

\* the same, where an operation reached by a nested invocation may raise
NextFaulty ==
    \/ NextNested
    \/ generate_response_fault(1)

SpecFaulty == InitActivated /\ [][NextFaulty]_vars

\* startup in any registration order, then generate_response through the
\* router, one nested invocation at a time
NextStartNested ==
    \/ \E name \in AgentNames : register(name)
    \/ activate_all
    \/ invoke_rejected("ResponseGeneratorAgent", "generate_response")
    \/ Len(history) < MaxRegHist /\ InvokeGenerateResponseBegin(1, MsgHello)
    \/ generate_response_step(1)
    \/ generate_response_return(1)

SpecStartNested == Init /\ [][NextStartNested]_vars

\* join_room invoked from several execution contexts at once
InvokeJoinRoomBegin(c, room_id, user_id) ==
    /\ Accepted("RoomManager", "join_room")
    /\ join_room_begin(c, room_id, user_id)

NextConc ==
    \/ \E c \in Contexts, u \in UserIds : InvokeJoinRoomBegin(c, 1, u)
    \/ \E c \in Contexts : join_room_check(c)
    \/ \E c \in Contexts : join_room_create(c)
    \/ \E c \in Contexts : join_room_add(c)
    \/ \E c \in Contexts : join_room_return(c)

SpecConc == InitActivated /\ [][NextConc]_vars

\* the response composed for every mapping a classifier can return: any
\* intent, known to the table or not, or none; any confidence, or none
IntentsTried ==
    { "greeting", "farewell", "question", "statement", "unknown", "thanks",
      "" }
MaxConfidence == 10

InitRespond ==
    /\ registered = StartupOrder
    /\ live = ActivationOrder(StartupOrder)
    /\ history = <<>>
    /\ rooms = << >>
    /\ room_order = <<>>
    /\ ctx = [c \in Contexts |-> IdleFrame]
    /\ subscribers = <<>>
    /\ \E hi \in BOOLEAN, hc \in BOOLEAN,
          i \in IntentsTried, k \in 0..MaxConfidence :
          ret = [NoRet EXCEPT !.op = "intent_result",
                              !.has_intent = hi,
                              !.intent = IF hi THEN i ELSE "",
                              !.has_confidence = hc,
                              !.confidence = IF hc THEN k ELSE 0]

NextRespond == compose_response

SpecRespond == InitRespond /\ [][NextRespond]_vars

\* classify_intent on every message of at most MaxMsgLen characters of the
\* alphabet, and on some longer ones that hold the longer keywords
Alphabet == { "h", "i", "H", "b", "y", "e", "?" }
GeneratedMessages == UNION { [1..n -> Alphabet] : n \in 0..MaxMsgLen }
LongMessages ==
    { <<"G","o","o","d","b","y","e","?">>,
      <<"s","e","e"," ","y","o","u">>,
      <<"S","e","e"," ","y","o","u"," ","h","e","l","l","o","?">>,
      <<"t","h","i","s"," ","i","s"," ","i","t">>,
      <<"o","k","?">> }
ClassifyInputs == GeneratedMessages \cup LongMessages \cup Messages

InitClassify ==
    /\ registered = StartupOrder
    /\ live = ActivationOrder(StartupOrder)
    /\ history = <<>>
    /\ rooms = << >>
    /\ room_order = <<>>
    /\ ctx = [c \in Contexts |-> IdleFrame]
    /\ subscribers = <<>>
    /\ \E message \in ClassifyInputs :
          ret = [NoRet EXCEPT !.op = "message", !.message = message]

NextClassify == ret.op = "message" /\ classify(ret.message)

SpecClassify == InitClassify /\ [][NextClassify]_vars

----------------------------------------------------------------------------
(* Properties of the conversation history *)

Min(a, b) == IF a < b THEN a ELSE b

\* C1: get_history(limit) with limit >= 1 on a history of N records
\* returns exactly min(limit, N) records, the most recently added ones, in
\* the order they were added.
C1_RecentWindow ==
    (ret.op = "get_history" /\ ret.limit >= 1) =>
        LET n == Len(history)
            k == Min(ret.limit, n)
        IN  /\ Len(ret.records) = k
            /\ \A i \in 1..k : ret.records[i] = history[n - k + i]

C1_Witness ==
    /\ ret.op = "get_history"
    /\ ret.limit = 2
    /\ Len(history) = 3
    /\ history[1] # history[2] /\ history[2] # history[3]
    /\ ret.records = <<history[2], history[3]>>

\* C2: get_history(limit) with limit <= 0 returns an empty sequence,
\* whatever the history holds.
C2_NonPositiveLimitEmpty ==
    (ret.op = "get_history" /\ ret.limit <= 0) => ret.records = <<>>

\* C3: a generate_response(message) call that completes appends exactly two
\* records, {user, message} and then {assistant, the response it returns};
\* "hello" is classified greeting with confidence 0.9 and answered with the
\* fixed greeting text.
C3_GenerateAppendsTwo ==
    [][ /\ (ret'.op = "generate_response" /\ ret'.raised = "") =>
              /\ history' = history \o
                    << [role |-> "user", content |-> ret'.message],
                       [role |-> "assistant", content |-> ret'.response] >>
              /\ ret'.message = MsgHello =>
                    /\ ret'.intent = "greeting"
                    /\ ret'.confidence = 9
                    /\ ret'.response = GreetingText
        /\ (ret'.op = "classify_intent" /\ ret'.message = MsgHello) =>
              /\ ret'.intent = "greeting"
              /\ ret'.confidence = 9
      ]_vars

C3_Witness ==
    /\ ret.op = "generate_response"
    /\ ret.raised = ""
    /\ ret.message = MsgHello
    /\ Len(history) = 3
    /\ history[2] = [role |-> "user", content |-> MsgHello]
    /\ history[3] = [role |-> "assistant", content |-> GreetingText]

\* C4: the history changes only by add_message appending one record at the
\* end (generate_response does so twice) with all earlier records unchanged
\* and in place, or by clear_history emptying it; every other operation
\* leaves it as it is.
C4_AppendOrClearOnly ==
    [][ \/ history' = history
        \/ /\ ret'.op = "add_message"
           /\ history' = Append(history, [role |-> ret'.role,
                                          content |-> ret'.content])
        \/ /\ ret'.op = "generate_response"
           /\ Len(history') = Len(history) + 2
           /\ SubSeq(history', 1, Len(history)) = history
        \/ /\ ret'.op = "clear_history"
           /\ history' = <<>>
      ]_vars

C4_Witness ==
    /\ ret.op = "add_message"
    /\ ret.message_count = 2
    /\ Len(history) = 2
    /\ history[1] # history[2]
    /\ 1 \in DOMAIN rooms

\* C5: clear_history on a history of N records empties it and returns
\* cleared_count = N; a clear_history right after it returns 0 and the next
\* add_message returns message_count = 1.
C5_ClearReportsCount ==
    [][ /\ ret'.op = "clear_history" =>
              /\ history' = <<>>
              /\ ret'.success
              /\ ret'.cleared_count = Len(history)
        /\ (ret.op = "clear_history" /\ ret'.op = "clear_history") =>
              ret'.cleared_count = 0
        /\ (history = <<>> /\ ret'.op = "add_message") =>
              /\ ret'.message_count = 1
              /\ Len(history') = 1
      ]_vars

C5_Witness ==
    /\ ret.op = "clear_history"
    /\ ret.cleared_count = 3
    /\ history = <<>>

----------------------------------------------------------------------------
(* Properties of the room manager *)

\* C6: join_room(r, u) on a room that does not exist creates it and returns
\* success with member_count 1; leave_room(r, u) then returns success and
\* leaves r existing with no member; leave_room(r, v) for a user v that
\* never joined r returns success = false (a user is a member only through
\* a join_room of that user, and leaving without being a member fails).
C6_JoinThenLeave ==
    [][ /\ (ret'.op = "join_room" /\ ret'.room_id \notin DOMAIN rooms) =>
              /\ ret'.success
              /\ ret'.member_count = 1
              /\ ret'.room_id \in DOMAIN rooms'
              /\ rooms'[ret'.room_id] = {ret'.user_id}
        /\ (/\ ret'.op = "leave_room"
            /\ ret'.room_id \in DOMAIN rooms
            /\ ret'.user_id \in rooms[ret'.room_id]) =>
              /\ ret'.success
              /\ ret'.room_id \in DOMAIN rooms'
              /\ rooms'[ret'.room_id] = rooms[ret'.room_id] \ {ret'.user_id}
        /\ \A r \in DOMAIN rooms', v \in UserIds :
              (v \in rooms'[r] /\ (r \notin DOMAIN rooms \/ v \notin rooms[r]))
                  => (ret'.op = "join_room" /\ ret'.room_id = r
                                            /\ ret'.user_id = v)
        /\ (/\ ret'.op = "leave_room"
            /\ ret'.room_id \in DOMAIN rooms
            /\ ret'.user_id \notin rooms[ret'.room_id]) =>
              ret'.success = FALSE
      ]_vars

C6_Witness ==
    /\ ret.op = "leave_room"
    /\ ret.success
    /\ ret.room_id \in DOMAIN rooms
    /\ rooms[ret.room_id] = {}

\* C7: no operation removes a room: a room_id that was created or joined is
\* a key of the table from then on, also when its last member has left; a
\* room holds each user at most once: joining a user who is already a
\* member leaves the membership and member_count unchanged.
C7_RoomsPersist ==
    [][ /\ DOMAIN rooms \subseteq DOMAIN rooms'
        /\ ret'.op \in { "create_room", "join_room" } =>
              ret'.room_id \in DOMAIN rooms'
        /\ (/\ ret'.op = "join_room"
            /\ ret'.room_id \in DOMAIN rooms
            /\ ret'.user_id \in rooms[ret'.room_id]) =>
              /\ rooms' = rooms
              /\ ret'.member_count = Cardinality(rooms[ret'.room_id])
        /\ Range(room_order') = DOMAIN rooms'
        /\ Len(room_order') = Cardinality(DOMAIN rooms')
      ]_vars

C7_Witness ==
    /\ ret.op = "join_room"
    /\ ret.member_count = NumUsers
    /\ \E r \in DOMAIN rooms : r # ret.room_id /\ rooms[r] = {}

\* C8: leave_room(r, u) when r does not exist, or when u is not a member of
\* r, returns {success: false, error: ...} without raising and leaves the
\* room table as it is: r is not created and no membership changes.
C8_LeaveFailsSoftly ==
    [][ (/\ ret'.op = "leave_room"
         /\ \/ ret'.room_id \notin DOMAIN rooms
            \/ ret'.user_id \notin rooms[ret'.room_id]) =>
              /\ ret'.raised = ""
              /\ ret'.success = FALSE
              /\ ret'.error = "User not in room"
              /\ rooms' = rooms
              /\ room_order' = room_order
      ]_vars

C8_Witness ==
    /\ ret.op = "leave_room"
    /\ ret.success = FALSE
    /\ ret.error # ""
    /\ ret.room_id \notin DOMAIN rooms
    /\ rooms # << >>

----------------------------------------------------------------------------
(* Properties of startup *)

Position(s, e) == CHOOSE i \in 1..Len(s) : s[i] = e

\* C9: the declared dependency graph of the four agents is acyclic and
\* names only registered agents, and activate_all activates every agent
\* after all of its dependencies: ConversationAgent before
\* IntentClassifierAgent before ResponseGeneratorAgent, whatever the
\* registration order.
C9_ActivationOrder ==
    /\ \A a \in AgentNames :
          /\ Range(dependencies(a)) \subseteq AgentNames
          /\ ~Requires(a, a, Cardinality(AgentNames))
    /\ \A i \in 1..Len(live) :
          \A d \in Range(dependencies(live[i])) :
              \E j \in 1..(i - 1) : live[j] = d
    /\ "IntentClassifierAgent" \in Range(live) =>
          /\ "ConversationAgent" \in Range(live)
          /\ Position(live, "ConversationAgent")
                < Position(live, "IntentClassifierAgent")
    /\ "ResponseGeneratorAgent" \in Range(live) =>
          /\ "IntentClassifierAgent" \in Range(live)
          /\ Position(live, "IntentClassifierAgent")
                < Position(live, "ResponseGeneratorAgent")
    /\ (ret.op = "activate_all" /\ ret.success) =>
          /\ Range(live) = Range(registered)
          /\ Len(live) = Len(registered)

C9_Witness ==
    /\ Len(registered) = 4
    /\ registered[1] = "ResponseGeneratorAgent"
    /\ registered[2] = "IntentClassifierAgent"
    /\ Len(live) = 4
    /\ ret.op = "activate_all"

\* C10: invoke on a name that is unregistered or not yet activated fails
\* with UnknownAgentError, and invoke on an activated agent with an
\* operation it does not expose fails with UnknownOperationError; in both
\* cases no operation runs: no agent's state changes.
C10_InvokeFailsFast ==
    [][ ret'.target # "Registry" =>
          /\ ret'.target \notin Range(live) =>
                /\ ret'.raised = "UnknownAgentError"
                /\ UNCHANGED <<history, rooms, room_order, registered, live>>
          /\ (/\ ret'.target \in Range(live)
              /\ ret'.op \notin operations(ret'.target)) =>
                /\ ret'.raised = "UnknownOperationError"
                /\ UNCHANGED <<history, rooms, room_order, registered, live>>
      ]_vars

C10_Witness ==
    /\ ret.target = "ConversationAgent"
    /\ ret.op = "add_message"
    /\ ret.raised = "UnknownAgentError"
    /\ "ConversationAgent" \in Range(registered)
    /\ live = <<>>
    /\ history = <<>>

----------------------------------------------------------------------------
(* Properties of nested invocation *)

IsPrefix(s, t) == Len(s) <= Len(t) /\ SubSeq(t, 1, Len(s)) = s

NestedCallOrder ==
    << "IntentClassifierAgent.classify_intent",
       "ConversationAgent.add_message(user)",
       "ConversationAgent.add_message(assistant)" >>

\* C11: a generate_response call dispatched through the router eventually
\* returns to its caller, and its nested invocations happen one after the
\* other in the order classify_intent, add_message(user),
\* add_message(assistant): the call is at its return only when all three
\* have returned, and each record is in the history when the caller goes on.
C11_NestedCallsReturn ==
    /\ (ctx[1].pc # "idle") ~> (ctx[1].pc = "idle")
    /\ [](ctx[1].op = "generate_response" =>
            /\ IsPrefix(ctx[1].trace, NestedCallOrder)
            /\ ctx[1].pc = "return" => ctx[1].trace = NestedCallOrder
            /\ Len(ctx[1].trace) >= 2 =>
                  \E i \in 1..Len(history) :
                      history[i] = [role |-> "user",
                                    content |-> ctx[1].message]
            /\ Len(ctx[1].trace) = 3 =>
                  /\ Len(history) >= 2
                  /\ history[Len(history) - 1] =
                        [role |-> "user", content |-> ctx[1].message]
                  /\ history[Len(history)] =
                        [role |-> "assistant", content |-> ctx[1].response])

C11_Witness ==
    /\ ctx[1].op = "generate_response"
    /\ ctx[1].pc = "return"
    /\ ctx[1].trace = NestedCallOrder
    /\ Len(history) = 4

\* C12: join_room calls made from concurrent execution contexts are
\* serialized: when two calls join_room(r, u1) and join_room(r, u2) have
\* both added their user, under every interleaving of their statements,
\* u1 and u2 are both members of r.
C12_ConcurrentJoinsKept ==
    \A c1 \in Contexts, c2 \in Contexts :
        (/\ ctx[c1].op = "join_room" /\ ctx[c1].pc = "return"
         /\ ctx[c2].op = "join_room" /\ ctx[c2].pc = "return"
         /\ ctx[c1].room_id = ctx[c2].room_id) =>
            {ctx[c1].user_id, ctx[c2].user_id}
                \subseteq rooms[ctx[c1].room_id]

----------------------------------------------------------------------------
(* Properties of the classifier and of the response generator *)

\* what each message of the host is classified as
ExpectedClassification(message) ==
    CASE message = MsgHello -> [intent |-> "greeting", confidence |-> 9]
      [] message = MsgByeQ -> [intent |-> "farewell", confidence |-> 9]
      [] message = MsgWhyQ -> [intent |-> "question", confidence |-> 7]
      [] message = MsgOk -> [intent |-> "statement", confidence |-> 6]

\* C13: classify_intent is deterministic and stateless: whatever calls were
\* made before it, a message gets one and the same {intent, confidence};
\* the call changes neither the conversation history nor any other agent's
\* state (it makes no call to ConversationAgent), although
\* IntentClassifierAgent declares ConversationAgent as a dependency.
C13_ClassifierPure ==
    [][ ret'.op = "classify_intent" =>
          /\ ret'.raised = ""
          /\ ret'.intent = ExpectedClassification(ret'.message).intent
          /\ ret'.confidence =
                ExpectedClassification(ret'.message).confidence
          /\ UNCHANGED <<history, rooms, room_order, registered, live, ctx,
                         subscribers>>
          /\ "ConversationAgent" \in Range(dependencies("IntentClassifierAgent"))
      ]_vars

C13_Witness ==
    /\ ret.op = "classify_intent"
    /\ ret.message = MsgByeQ
    /\ ret.intent = "farewell"
    /\ Len(history) = 2
    /\ 1 \in DOMAIN rooms
    /\ rooms[1] = {1}

\* C14: generate_response returns the canned text the table holds for the
\* intent the classifier returned and the fallback text when the table has
\* no such intent, a result without intent counting as "unknown"; the
\* returned intent and confidence are the classifier's, 0.0 when the
\* result carries no confidence.
C14_CannedOrFallback ==
    [][ (ret.op = "intent_result" /\ ret'.op = "generate_response") =>
          /\ (ret.has_intent /\ ret.intent = "greeting") =>
                ret'.response = GreetingText
          /\ (ret.has_intent /\ ret.intent = "farewell") =>
                ret'.response = FarewellText
          /\ (ret.has_intent /\ ret.intent = "question") =>
                ret'.response = QuestionText
          /\ (ret.has_intent /\ ret.intent = "statement") =>
                ret'.response = StatementText
          /\ (\/ ~ret.has_intent
              \/ ret.intent \notin { "greeting", "farewell", "question",
                                     "statement" }) =>
                ret'.response = FallbackText
          /\ ret'.intent = IF ret.has_intent THEN ret.intent ELSE "unknown"
          /\ ret'.confidence = IF ret.has_confidence
                               THEN ret.confidence ELSE 0
      ]_vars

C14_Witness ==
    /\ ret.op = "generate_response"
    /\ ret.intent = "unknown"
    /\ ret.response = FallbackText
    /\ ret.confidence = 0

HasCycle(reg) == { "A", "B" } \subseteq Range(reg)

C16_PublishOrderedIsolated ==
    [][ ret'.op = "publish" =>
          /\ Len(ret'.delivered) = Len(subscribers)
          /\ \A i \in 1..Len(subscribers) :
                /\ ret'.delivered[i].handler = subscribers[i]
                /\ ret'.delivered[i].payload = ret'.message
          /\ ret'.failed \subseteq Range(subscribers)
      ]_vars

C16_Witness ==
    /\ ret.op = "publish"
    /\ subscribers = << 1, 2 >>
    /\ ret.failed = { 1 }
    /\ ret.delivered = << [handler |-> 1, payload |-> MsgHello],
                          [handler |-> 2, payload |-> MsgHello] >>

\* a keyword of the set occurs in the message, whatever the case of the
\* message's letters
HasKeyword(message, words) ==
    \E word \in words :
        \E i \in 1..Len(message) :
            /\ i + Len(word) - 1 <= Len(message)
            /\ \A j \in 1..Len(word) : LowerChar(message[i + j - 1]) = word[j]

HasQuestionMark(message) == \E i \in 1..Len(message) : message[i] = "?"

\* C17: classify_intent applies its rules in the order greeting, farewell,
\* question, statement, a keyword counting whatever the case of the
\* message's letters: a message with a greeting keyword is greeting (0.9),
\* also when it holds a farewell keyword or a "?"; one with a farewell
\* keyword and no greeting keyword is farewell (0.9), also when it holds a
\* "?"; one with a "?" and no keyword is question (0.7); every other
\* message is statement (0.6).
C17_RulePriority ==
    [][ ret'.op = "classify_intent" =>
          LET m == ret'.message
              g == HasKeyword(m, GreetingWords)
              f == HasKeyword(m, FarewellWords)
              q == HasQuestionMark(m)
          IN  /\ g => (ret'.intent = "greeting" /\ ret'.confidence = 9)
              /\ (~g /\ f) =>
                    (ret'.intent = "farewell" /\ ret'.confidence = 9)
              /\ (~g /\ ~f /\ q) =>
                    (ret'.intent = "question" /\ ret'.confidence = 7)
              /\ (~g /\ ~f /\ ~q) =>
                    (ret'.intent = "statement" /\ ret'.confidence = 6)
              /\ ret'.intent \in { "greeting", "farewell", "question",
                                    "statement" }
      ]_vars

C17_Witness ==
    /\ ret.op = "classify_intent"
    /\ ret.message = <<"b","y","e","H","i">>
    /\ ret.intent = "greeting"
    /\ ret.confidence = 9

\* C18: create_room(r) on a room that exists, created explicitly or by
\* join_room, returns {success: false, error: "Room already exists"} and
\* leaves the membership of r and of every other room unchanged;
\* create_room(r) on a room that does not exist adds r with no members,
\* leaves every other room unchanged and returns success.
C18_CreateExistingRejected ==
    [][ ret'.op = "create_room" =>
          /\ ret'.raised = ""
          /\ ret'.room_id \in DOMAIN rooms =>
                /\ ret'.success = FALSE
                /\ ret'.error = "Room already exists"
                /\ rooms' = rooms
                /\ room_order' = room_order
          /\ ret'.room_id \notin DOMAIN rooms =>
                /\ ret'.success = TRUE
                /\ ret'.error = ""
                /\ DOMAIN rooms' = DOMAIN rooms \cup { ret'.room_id }
                /\ rooms'[ret'.room_id] = {}
                /\ \A r \in DOMAIN rooms : rooms'[r] = rooms[r]
      ]_vars

C18_Witness ==
    /\ ret.op = "create_room"
    /\ ret.success = FALSE
    /\ ret.error = "Room already exists"
    /\ rooms[ret.room_id] = UserIds
    /\ \E r \in DOMAIN rooms : r # ret.room_id /\ rooms[r] = {}

\* the agents generate_response invokes
InvokedByGenerateResponse ==
    { StepTarget(step) : step \in Range(GenerateResponseSteps) }

\* C19: the agents generate_response invokes, IntentClassifierAgent and
\* ConversationAgent, are declared dependencies of ResponseGeneratorAgent;
\* whenever ResponseGeneratorAgent is live after an activation in dependency
\* order both are live, and no nested invocation of a running
\* generate_response fails with UnknownAgentError.
C19_TargetsDeclaredAndLive ==
    /\ InvokedByGenerateResponse =
          { "IntentClassifierAgent", "ConversationAgent" }
    /\ InvokedByGenerateResponse \subseteq
          Range(dependencies("ResponseGeneratorAgent"))
    /\ "ResponseGeneratorAgent" \in Range(live) =>
          InvokedByGenerateResponse \subseteq Range(live)
    /\ \A c \in Contexts :
          InGenerateResponse(c) =>
              RouterError(StepTarget(ctx[c].pc), StepOperation(ctx[c].pc))
                  # "UnknownAgentError"
    /\ (ret.op = "generate_response" /\ ret.raised = "UnknownAgentError") =>
          "ResponseGeneratorAgent" \notin Range(live)

C19_Witness ==
    /\ Len(registered) = Cardinality(AgentNames)
    /\ registered[1] = "ResponseGeneratorAgent"
    /\ ret.op = "generate_response"
    /\ ret.raised = ""
    /\ ret.response = GreetingText
    /\ Len(history) = 2

\* C20: an error raised by an operation that generate_response invokes
\* reaches the caller of generate_response. When classify_intent raises, no
\* add_message of the call has run and the history stays as it is; when
\* the second add_message raises, the user record appended by the first
\* is still the last record of the history.
C20_ErrorLeavesPartialHistory ==
    [][ (/\ InGenerateResponse(1)
         /\ ctx'[1].pc = "idle"
         /\ ret'.raised = "OperationError") =>
          /\ ret'.op = "generate_response"
          /\ ret'.error = StepName(ctx[1].pc)
          /\ history' = history
          /\ ctx[1].pc = "classify" => ctx[1].trace = <<>>
          /\ ctx[1].pc = "add_assistant" =>
                /\ ctx[1].trace = SubSeq(NestedCallOrder, 1, 2)
                /\ Len(history') >= 1
                /\ history'[Len(history')] =
                      [role |-> "user", content |-> ctx[1].message]
      ]_vars

C20_Witness ==
    /\ ret.op = "generate_response"
    /\ ret.raised = "OperationError"
    /\ ret.error = "ConversationAgent.add_message(assistant)"
    /\ ctx[1].pc = "idle"
    /\ Len(history) = 3
    /\ history[3] = [role |-> "user", content |-> ret.message]

=============================================================================
